---- MODULE Spec2Model ----
(***************************************************************************)
(* The hourly crawl-parse-dedup-store pipeline of vehicle_data:            *)
(*   database/db.py                  VehicleDatabase (pool, gate, store)   *)
(*   scrapper/autoscout24_hourly.py  AutoScout24HourlyScraper              *)
(*   scrapper/mobile_de_hourly.py    MobileDeHourlyScraper                 *)
(* One run of one scraper is modelled: the pagination loop of run(), the   *)
(* retrying _make_request, the item threads of process_listings and the    *)
(* database calls they make.  Item threads are anonymous, so the threads   *)
(* of the page are kept as a bag of their local states.  The specifications *)
(* differ in the source site the run meets: Spec (one page of few          *)
(* listings), SpecPages (several pages), SpecWide and SpecGate (one wide   *)
(* page), SpecFeat (detail pages with new features), SpecIso (one page,    *)
(* fair scheduling), SpecInt (a run the user interrupts), SpecBanner (a     *)
(* Mobile.de page with an entry that is not an ad).  SpecStore and         *)
(* SpecUid call the database directly, SpecParse the search-result         *)
(* normalizers, SpecFetch one _make_request and SpecMap the end of         *)
(* Mobile.de's parse_detail_listing.                                       *)
(***************************************************************************)
EXTENDS Integers, Sequences, FiniteSets, Bags, TLC

VARIABLES
    source,       \* which scraper runs: the data_source it passes to the database
    config,       \* its ScraperConfig
    table,        \* rows of vehicle_marketplace.vehicle_data (a bag of rows)
    used,         \* connections checked out of the ThreadedConnectionPool
    lock,         \* process_listings' threading.Lock is held
    stats,        \* ScraperStats
    page_number,  \* run(): page_number
    num_pages,    \* run(): num_pages of the last decoded response
    pc,           \* run(): position of the main thread
    attempt,      \* _make_request of the main thread: attempt
    pending,      \* process_listings: listings not yet handed to a thread
    workers,      \* process_listings: local states of the running item threads
    req_base,     \* history: stats.total_requests when the main thread entered _make_request
    new_rows,     \* history: rows the current page has added to the table
    zero_pages,   \* history: consecutive processed pages that added no row
    calls,        \* history: the insert_vehicle calls made directly on the database
    unique_features, \* self.unique_features: the feature names known so far
    reports,      \* history: how often the final statistics were printed
    interrupts,   \* history: KeyboardInterrupts delivered to the main thread
    listing,      \* a raw listing handed to the search-result normalizer
    parsed,       \* the record the normalizer returned for it
    responses,    \* history: what requests.get gave in each attempt of a _make_request call
    sleeps,       \* history: the arguments of time.sleep in that call
    record,       \* basic_data when parse_detail_listing reaches the gallery images
    gallery,      \* the galleryImages of the detail payload
    mapped        \* the record parse_detail_listing returned for it

\* the normalizer's input and output
normvars == <<listing, parsed>>

\* the history of one _make_request call
fetchvars == <<responses, sleeps>>

\* the input and output of the end of Mobile.de's parse_detail_listing
mapvars == <<record, gallery, mapped>>

vars == <<source, config, table, used, lock, stats, page_number, num_pages, pc,
          attempt, pending, workers, req_base, new_rows, zero_pages, calls,
          unique_features, reports, interrupts, normvars, fetchvars, mapvars>>

-----------------------------------------------------------------------------
(* Bounds of the model.                                                    *)

\* listings on one page of the search results
MaxItems == 2
\* largest page count the source reports
MaxNumPages == 4
\* ScraperConfig.max_pages and max_retries of the many-page specification
MaxPagesCfg == 4
MaxRetriesCfg == 1
\* length of a page of the wide-page specification beyond the widths it is about
ExtraItems == 1
\* direct insert_vehicle calls in the database specification
MaxCalls == 2

-----------------------------------------------------------------------------
(* Values.  Python's None and a key missing from a dict are kept apart     *)
(* from every string a listing can carry.                                  *)

None == "<None>"
Missing == "<missing>"

Sources == {"autoscout24", "mobile"}

\* vehicle ids the source site serves
Ids == {"a", "b"}

\* f"{v}": how an f-string formats a value
Format(v) == IF v = None THEN "None" ELSE v

\* Python truthiness of a value read from the dict: `not v`
Falsy(v) == v = None \/ v = ""

-----------------------------------------------------------------------------
(* database/db.py                                                          *)

maxconn == 20

generate_unique_id(vehicle_id, data_source) ==
    Format(vehicle_id) \o "_" \o data_source

\* SELECT 1 FROM vehicle_data WHERE unique_id = %s LIMIT 1 ... fetchone() is not None
SelectExists(tbl, unique_id) ==
    \E r \in BagToSet(tbl) : r.unique_id = unique_id

RejectsMissingOnly(data) == data.vehicle_id = Missing \/ data.data_source = Missing

\* insert_vehicle's validation of the required fields
InsertRejects(data) ==
    \/ data.vehicle_id = Missing \/ data.data_source = Missing
    \/ Falsy(data.vehicle_id) \/ Falsy(data.data_source)

NoPrimaryKey(tbl, unique_id) == FALSE

\* unique_id VARCHAR(500) PRIMARY KEY: the INSERT raises IntegrityError
PrimaryKeyViolation(tbl, unique_id) == SelectExists(tbl, unique_id)

\* the row insert_vehicle builds: unique_id first, then the valid columns of data
InsertRow(data) ==
    [unique_id   |-> generate_unique_id(data.vehicle_id, data.data_source),
     vehicle_id  |-> data.vehicle_id,
     data_source |-> data.data_source,
     detail      |-> data.detail]

ExecuteBlind(tbl, data, dbok) ==
    IF ~dbok THEN [ret |-> FALSE, table |-> tbl]
    ELSE [ret |-> TRUE, table |-> tbl (+) SetToBag({InsertRow(data)})]

ExecuteUpsert(tbl, data, dbok) ==
    LET row == InsertRow(data) IN
    IF ~dbok THEN [ret |-> FALSE, table |-> tbl]
    ELSE [ret |-> TRUE,
          table |-> SetToBag({r \in BagToSet(tbl) : r.unique_id # row.unique_id} \cup {row})]

\* cursor.execute(INSERT) and commit, or the except branches (rollback, return False).
\* dbok = FALSE is any other database error raised by the statement.
ExecuteInsert(tbl, data, dbok) ==
    LET row == InsertRow(data) IN
    IF PrimaryKeyViolation(tbl, row.unique_id) THEN [ret |-> FALSE, table |-> tbl]
    ELSE IF ~dbok THEN [ret |-> FALSE, table |-> tbl]
    ELSE [ret |-> TRUE, table |-> tbl (+) SetToBag({row})]

KeepConnection(u) == u

\* `finally: if conn: self._put_connection(conn)`: the connection goes back to
\* the pool on every way out of check_id_exists and insert_vehicle
PutConnection(u) == u - 1

\* ThreadedConnectionPool.getconn raises PoolError when maxconn connections are out
PoolExhausted == used >= maxconn

\* insert_vehicle called with no other call in progress: the validation, the
\* connection, the INSERT
insert_vehicle(tbl, data, dbok) ==
    IF InsertRejects(data) \/ PoolExhausted THEN [ret |-> FALSE, table |-> tbl]
    ELSE ExecuteInsert(tbl, data, dbok)

-----------------------------------------------------------------------------
(* ScraperConfig, ScraperStats and the listings of the source site.        *)

\* ScraperConfig.max_workers (Mobile.de); AutoScout24's config has no such field
max_workers == 5

\* ScraperConfig.min_response_size (Mobile.de); AutoScout24's config has no such field
min_response_size == 6000

\* the ScraperConfig main() builds for each scraper
DefaultConfig(src) ==
    IF src = "autoscout24"
    THEN [max_pages |-> 200, max_retries |-> 3]
    ELSE [max_pages |-> 50, max_retries |-> 5, max_workers |-> max_workers,
          min_response_size |-> min_response_size]

\* a ScraperConfig with few pages and few retries
SmallConfig(src) ==
    [DefaultConfig(src) EXCEPT !.max_pages = MaxPagesCfg, !.max_retries = MaxRetriesCfg]

ScraperStats ==
    [total_listings |-> 0, total_requests |-> 0, failed_requests |-> 0,
     pages_processed |-> 0, duplicates_skipped |-> 0, list_process_per_page |-> 0,
     consective_no_data_page_count |-> 0]

\* a raw listing of a search page: its id (None when the payload has none) and,
\* for Mobile.de, the type of the page entry
Items(src) ==
    [id : Ids \cup {None}, type : {"ad"}]
    \cup (IF src = "mobile" THEN {[id |-> "a", type |-> "banner"]} ELSE {})

SeqsUpTo(S, n) == UNION {[1..k -> S] : k \in 0..n}

\* the pages a search response can carry
SmallPages(src) == SeqsUpTo(Items(src), MaxItems)

\* a page of n listings: one new listing ("b") and otherwise the listing already
\* stored ("a")
PageOf(n) == [i \in 1..n |-> [id |-> IF i = 1 THEN "b" ELSE "a", type |-> "ad"]]

\* a page wider than Mobile.de's thread pool
WidePages(src) == {PageOf(max_workers + ExtraItems)}

\* a page wider than the connection pool
PoolPages(src) == {PageOf(maxconn + ExtraItems)}

\* outcome of one requests.get: a response that passes the success test, a
\* response that does not (status, body size), or an exception (timeout,
\* connection error)
Outcomes == {"ok", "bad", "exc"}

\* a row an earlier run of this scraper stored
StoredRow(id, src) ==
    [unique_id |-> generate_unique_id(id, src), vehicle_id |-> id,
     data_source |-> src, detail |-> TRUE]

\* parse_listing / parse_basic_listing: the basic record.  AutoScout24's clean-up
\* drops an id of None, Mobile.de keeps the key with the value None.
ParseListing(src, item) ==
    [id |-> IF item.id = None /\ src = "autoscout24" THEN Missing ELSE item.id]

\* basic_data.get('id')
ListingId(basic) == IF basic.id = Missing THEN None ELSE basic.id

\* utils.key_mapping.convert_vehicle_data: id becomes vehicle_id and the source
\* name becomes data_source
convert_vehicle_data(basic, detail, src) ==
    [vehicle_id |-> basic.id, data_source |-> src, detail |-> detail]

SkipsNothing(src, item) == FALSE

\* process_single of Mobile.de returns at once for an entry that is not an ad
Skipped(src, item) == src = "mobile" /\ item.type # "ad"

-----------------------------------------------------------------------------
(* The feature vocabulary and the detail pages.                            *)

\* the names self.unique_features starts with (utils.filters.autoscout24_features,
\* utils.filters.mobile_features)
KnownFeatures == {"abs"}

\* what get_detail_response and the navigation to the listing's data can give for
\* a response that passed the success test: nothing usable (data = FALSE: no
\* __NEXT_DATA__ / __INITIAL_STATE__ payload, no ad data), or the listing's data
\* with the list of its features
\* The detail page of listing "c" may list a feature that is not yet known.
DetailPayloads(id) ==
    {[data |-> FALSE, features |-> {}], [data |-> TRUE, features |-> {}]}
    \cup (IF id = "c" THEN {[data |-> TRUE, features |-> {"gps"}]} ELSE {})

\* parse_detail_listing returns the record with these feature names as keys;
\* known keeps the names unique_features held at that moment, flags the keys
\* whose value is True (`feature in features`)
Returned(w, keys) ==
    [w EXCEPT !.pc = "lock", !.keys = keys, !.known = unique_features,
              !.flags = {k \in keys : k \in w.features}]

\* the feature keys of the record returned after `for feature in
\* self.unique_features` raised RuntimeError (set changed size during iteration):
\* AutoScout24 collects the flags in new_data, which is then never merged;
\* Mobile.de has written the flags it reached into basic_data
KeysAfterError(src, snapshot) == IF src = "autoscout24" THEN {{}} ELSE SUBSET snapshot

-----------------------------------------------------------------------------
(* The item threads: process_single and what it calls.                     *)

\* local state of a thread that has parsed its listing and is about to call
\* parse_detail_listing
NewWorker(src, item, page) ==
    [page |-> page, id |-> ParseListing(src, item).id, pc |-> "gate",
     attempt |-> 0, tmp |-> 0, resp |-> "none", gate |-> "none", detail |-> FALSE,
     failed |-> FALSE, iter |-> {}, keys |-> {}, known |-> {}, features |-> {},
     flags |-> {}]

Replace(w, w2) == (workers (-) SetToBag({w})) (+) SetToBag({w2})
Finish(w) == workers (-) SetToBag({w})
Running == BagCardinality(workers)

FailureFetches(w) == Replace(w, [w EXCEPT !.pc = "request"])

ItemAborts(w) == Replace(w, [w EXCEPT !.pc = "raised"])

\* process_single's `except Exception`: whatever a step of the item raises is
\* printed and the thread ends
ItemFailure(w) == Finish(w)

\* a thread may be started for the next listing: AutoScout24's process_listings
\* starts one thread per listing, Mobile.de's ThreadPoolExecutor runs at most
\* max_workers at a time and its threads go on taking submitted listings after
\* the main thread has left the with-block by an exception
MayStart(src) ==
    IF src = "autoscout24" THEN pc = "dispatch"
    ELSE pc \in {"dispatch", "shutdown", "report", "stopped"} /\ Running < config.max_workers

\* threading.Thread(...).start() / a pool thread taking the next submitted listing;
\* the thread parses the listing (CPU only) before its first shared access.  A
\* listing that cannot be parsed ends the thread: parse_listing returns {} and
\* process_single returns, parse_basic_listing raises into process_single's except
StartThread ==
    \E parse_ok \in BOOLEAN :
        /\ pending # <<>>
        /\ MayStart(source)
        /\ pending' = Tail(pending)
        /\ workers' = IF Skipped(source, Head(pending)) \/ ~parse_ok THEN workers
                      ELSE workers (+) SetToBag({NewWorker(source, Head(pending), page_number)})
        /\ UNCHANGED <<source, config, table, used, lock, stats, page_number, num_pages,
                       pc, attempt, req_base, new_rows, zero_pages, calls,
                       unique_features, reports, interrupts, normvars, fetchvars, mapvars>>

\* check_id_exists: _get_connection().  A PoolError is re-raised and caught by
\* process_single's except: the thread ends and the listing is dropped.
GateGetConn ==
    \E w \in BagToSet(workers) :
        /\ w.pc = "gate"
        /\ IF PoolExhausted
           THEN workers' = ItemFailure(w) /\ used' = used
           ELSE workers' = Replace(w, [w EXCEPT !.pc = "gate_q"]) /\ used' = used + 1
        /\ UNCHANGED <<source, config, table, lock, stats, page_number, num_pages, pc,
                       attempt, pending, req_base, new_rows, zero_pages, calls,
                       unique_features, reports, interrupts, normvars, fetchvars, mapvars>>

GateKeyPlain(vehicle_id, data_source) == Format(vehicle_id)

\* check_id_exists: the key it looks up is generate_unique_id(vehicle_id,
\* data_source), the derivation insert_vehicle uses for the row
GateKey(vehicle_id, data_source) == generate_unique_id(vehicle_id, data_source)

FetchAlways(exists) == "request"

\* parse_detail_listing: a known id is counted and skipped, a new one is fetched
AfterGate(exists) == IF exists THEN "dup_load" ELSE "request"

\* check_id_exists: the SELECT, its result, and the connection put back.  A
\* database error in the SELECT (dbok = FALSE) is re-raised into process_single.
GateQuery ==
    \E w \in BagToSet(workers), dbok \in BOOLEAN :
        /\ w.pc = "gate_q"
        /\ LET exists == SelectExists(table, GateKey(ListingId(w), source)) IN
           workers' = IF ~dbok THEN ItemFailure(w)
                      ELSE Replace(w, [w EXCEPT !.pc = AfterGate(exists),
                                                !.gate = IF exists THEN "hit" ELSE "miss"])
        /\ used' = PutConnection(used)
        /\ UNCHANGED <<source, config, table, lock, stats, page_number, num_pages, pc,
                       attempt, pending, req_base, new_rows, zero_pages, calls,
                       unique_features, reports, interrupts, normvars, fetchvars, mapvars>>

\* self.stats.duplicates_skipped += 1, not atomic: the read ...
DupLoad ==
    \E w \in BagToSet(workers) :
        /\ w.pc = "dup_load"
        /\ workers' = Replace(w, [w EXCEPT !.pc = "dup_store", !.tmp = stats.duplicates_skipped])
        /\ UNCHANGED <<source, config, table, used, lock, stats, page_number, num_pages,
                       pc, attempt, pending, req_base, new_rows, zero_pages, calls,
                       unique_features, reports, interrupts, normvars, fetchvars, mapvars>>

\* ... and the write; parse_detail_listing returns None and the thread ends
DupStore ==
    \E w \in BagToSet(workers) :
        /\ w.pc = "dup_store"
        /\ stats' = [stats EXCEPT !.duplicates_skipped = w.tmp + 1]
        /\ workers' = Finish(w)
        /\ UNCHANGED <<source, config, table, used, lock, page_number, num_pages, pc,
                       attempt, pending, req_base, new_rows, zero_pages, calls,
                       unique_features, reports, interrupts, normvars, fetchvars, mapvars>>

\* _make_request after a failed attempt: the next attempt (after the backoff
\* sleep) while attempt < max_retries - 1, else the loop is exhausted
Exhausted(a) == a + 1 >= config.max_retries

AfterFailure(w) ==
    IF Exhausted(w.attempt)
    THEN [w EXCEPT !.pc = "fail_load", !.attempt = 0, !.tmp = 0, !.resp = "none"]
    ELSE [w EXCEPT !.pc = "request", !.attempt = w.attempt + 1, !.tmp = 0, !.resp = "none"]

\* get_detail_response -> _make_request: one requests.get.  An exception skips the
\* counter; a response is followed by the read of self.stats.total_requests += 1
Request ==
    \E w \in BagToSet(workers), o \in Outcomes :
        /\ w.pc = "request"
        /\ workers' = Replace(w, IF o = "exc" THEN AfterFailure(w)
                                 ELSE [w EXCEPT !.pc = "req_store", !.resp = o,
                                                !.tmp = stats.total_requests])
        /\ UNCHANGED <<source, config, table, used, lock, stats, page_number, num_pages,
                       pc, attempt, pending, req_base, new_rows, zero_pages, calls,
                       unique_features, reports, interrupts, normvars, fetchvars, mapvars>>

\* the write of total_requests, then the success test of the response.  A success
\* returns the response to get_detail_response
RequestStore ==
    \E w \in BagToSet(workers) :
        /\ w.pc = "req_store"
        /\ stats' = [stats EXCEPT !.total_requests = w.tmp + 1]
        /\ workers' = Replace(w, IF w.resp = "ok"
                                 THEN [w EXCEPT !.pc = "detail", !.attempt = 0, !.tmp = 0,
                                                !.resp = "none"]
                                 ELSE AfterFailure(w))
        /\ UNCHANGED <<source, config, table, used, lock, page_number, num_pages, pc,
                       attempt, pending, req_base, new_rows, zero_pages, calls,
                       unique_features, reports, interrupts, normvars, fetchvars, mapvars>>

\* self.stats.failed_requests += 1 after the loop: the read ...
FailLoad ==
    \E w \in BagToSet(workers) :
        /\ w.pc = "fail_load"
        /\ workers' = Replace(w, [w EXCEPT !.pc = "fail_store", !.tmp = stats.failed_requests])
        /\ UNCHANGED <<source, config, table, used, lock, stats, page_number, num_pages,
                       pc, attempt, pending, req_base, new_rows, zero_pages, calls,
                       unique_features, reports, interrupts, normvars, fetchvars, mapvars>>

\* ... and the write; _make_request returns None, get_detail_response returns
\* None and parse_detail_listing returns the basic record, which goes on to the
\* insert
FailStore ==
    \E w \in BagToSet(workers) :
        /\ w.pc = "fail_store"
        /\ stats' = [stats EXCEPT !.failed_requests = w.tmp + 1]
        /\ workers' = Replace(w, Returned([w EXCEPT !.tmp = 0, !.failed = TRUE], {}))
        /\ UNCHANGED <<source, config, table, used, lock, page_number, num_pages, pc,
                       attempt, pending, req_base, new_rows, zero_pages, calls,
                       unique_features, reports, interrupts, normvars, fetchvars, mapvars>>

\* parse_detail_listing with the response: without usable data the basic record
\* is returned; otherwise self.unique_features.update(features), outside any
\* lock, and the iterator of `for feature in self.unique_features` is created
\* over the shared set itself.  (The update and the creation of the iterator
\* are taken together: a name another thread adds between the two is seen by
\* the loop, as if it had been added before the update.)
FeatureUpdate ==
    \E w \in BagToSet(workers) : \E p \in DetailPayloads(w.id) :
        /\ w.pc = "detail"
        /\ IF p.data
           THEN /\ unique_features' = unique_features \cup p.features
                /\ workers' = Replace(w, [w EXCEPT !.pc = "feat_iter", !.detail = TRUE,
                                                   !.iter = unique_features \cup p.features,
                                                   !.features = p.features])
           ELSE /\ workers' = Replace(w, Returned(w, {}))
                /\ UNCHANGED unique_features
        /\ UNCHANGED <<source, config, table, used, lock, stats, page_number, num_pages,
                       pc, attempt, pending, req_base, new_rows, zero_pages, calls,
                       reports, interrupts, normvars, fetchvars, mapvars>>

\* the loop over self.unique_features runs to its end: every name the set held
\* becomes a key of the record.  If the set has grown since the iterator was
\* created, the iterator raises RuntimeError, which the except of
\* parse_detail_listing turns into `return basic_data`.
FeatureLoop ==
    \E w \in BagToSet(workers) :
        \E keys \in IF unique_features = w.iter THEN {w.iter}
                    ELSE KeysAfterError(source, w.iter) :
            /\ w.pc = "feat_iter"
            /\ workers' = Replace(w, Returned([w EXCEPT !.iter = {}], keys))
            /\ UNCHANGED <<source, config, table, used, lock, stats, page_number,
                           num_pages, pc, attempt, pending, req_base, new_rows,
                           zero_pages, calls, unique_features, reports,
                           interrupts, normvars, fetchvars, mapvars>>

\* under the lock, after insert_vehicle has returned (whatever it returned)
CountListing(st) ==
    [st EXCEPT !.total_listings = @ + 1, !.list_process_per_page = @ + 1]

\* the title is built and convert_vehicle_data called (an exception there ends
\* the thread), then with lock: insert_vehicle(final_data) up to
\* _get_connection().  A rejected record, or a PoolError caught in
\* insert_vehicle, returns False at once; the counters are then incremented and
\* the lock released.
LockAcquire ==
    \E w \in BagToSet(workers), converted \in BOOLEAN :
        /\ w.pc = "lock"
        /\ ~lock
        /\ LET data == convert_vehicle_data(w, w.detail, source) IN
           IF ~converted
           THEN /\ workers' = ItemFailure(w)
                /\ UNCHANGED <<lock, used, stats>>
           ELSE IF InsertRejects(data) \/ PoolExhausted
           THEN /\ stats' = CountListing(stats)
                /\ workers' = Finish(w)
                /\ UNCHANGED <<lock, used>>
           ELSE /\ lock' = TRUE
                /\ used' = used + 1
                /\ workers' = Replace(w, [w EXCEPT !.pc = "insert"])
                /\ UNCHANGED stats
        /\ UNCHANGED <<source, config, table, page_number, num_pages, pc, attempt,
                       pending, req_base, new_rows, zero_pages, calls,
                       unique_features, reports, interrupts, normvars, fetchvars, mapvars>>

\* insert_vehicle from cursor.execute on: commit or rollback, the connection put
\* back, then the counters and the release of the lock
InsertExec ==
    \E w \in BagToSet(workers), dbok \in BOOLEAN :
        /\ w.pc = "insert"
        /\ LET res == ExecuteInsert(table, convert_vehicle_data(w, w.detail, source), dbok) IN
           /\ table' = res.table
           /\ new_rows' = IF res.ret THEN new_rows + 1 ELSE new_rows
        /\ used' = PutConnection(used)
        /\ stats' = CountListing(stats)
        /\ lock' = FALSE
        /\ workers' = Finish(w)
        /\ UNCHANGED <<source, config, page_number, num_pages, pc, attempt, pending,
                       req_base, zero_pages, calls,
                       unique_features, reports, interrupts, normvars, fetchvars, mapvars>>

-----------------------------------------------------------------------------
(* The main thread: run() and the page request it makes.                   *)

NoPageLimit(p, cfg) == TRUE

\* the condition of `while page_number < self.config.max_pages`
WithinMaxPages(p, cfg) == p < cfg.max_pages

\* while page_number < self.config.max_pages: the next page is requested, or the
\* loop ends
LoopTest ==
    /\ pc = "loop"
    /\ IF WithinMaxPages(page_number, config)
       THEN pc' = "request" /\ attempt' = 0 /\ req_base' = stats.total_requests
       ELSE pc' = "report" /\ UNCHANGED <<attempt, req_base>>
    /\ UNCHANGED <<source, config, table, used, lock, stats, page_number, num_pages,
                   pending, workers, new_rows, zero_pages, calls,
                   unique_features, reports, interrupts, normvars, fetchvars, mapvars>>

RetryPage == "loop"

\* run(): `break` when the page has no usable response or no listings: the loop
\* is left for the report
AfterPageFailure == "report"

\* _make_request: total_requests += 1 is reached only when requests.get returned
Counted(o) == o # "exc"

\* get_pagination_response / get_search_response -> _make_request: one attempt of
\* the main thread (no item thread runs, so its increments are not interleaved)
PageRequest ==
    \E o \in Outcomes :
        /\ pc = "request"
        /\ LET st == IF Counted(o) THEN [stats EXCEPT !.total_requests = @ + 1] ELSE stats IN
           IF o = "ok"
           THEN pc' = "response" /\ stats' = st /\ UNCHANGED attempt
           ELSE IF Exhausted(attempt)
           THEN /\ pc' = AfterPageFailure
                /\ stats' = [st EXCEPT !.failed_requests = @ + 1]
                /\ UNCHANGED attempt
           ELSE pc' = "request" /\ stats' = st /\ attempt' = attempt + 1
        /\ UNCHANGED <<source, config, table, used, lock, page_number, num_pages,
                       pending, workers, req_base, new_rows, zero_pages, calls,
                       unique_features, reports, interrupts, normvars, fetchvars, mapvars>>

\* run(): the response is decoded; an undecodable payload, a payload without the
\* search results, or an empty list of listings breaks the loop, and a payload
\* of an unexpected shape raises into run()'s `except Exception`: either way the
\* loop is left for the report.  Otherwise process_listings is entered with the
\* listings of the page
PageResponse(Pages, NumPages) ==
    \E decoded \in BOOLEAN, ls \in Pages, n \in NumPages :
        /\ pc = "response"
        /\ IF decoded /\ ls # <<>>
           THEN /\ pc' = "dispatch"
                /\ num_pages' = n
                /\ pending' = ls
           ELSE /\ pc' = AfterPageFailure
                /\ UNCHANGED <<num_pages, pending>>
        /\ UNCHANGED <<source, config, table, used, lock, stats, page_number, attempt, workers,
                       req_base, new_rows, zero_pages, calls,
                       unique_features, reports, interrupts, normvars, fetchvars, mapvars>>

NoJoin == pending = <<>>

\* process_listings returns: every thread is joined / the executor has shut down
JoinDone == pending = <<>> /\ workers = EmptyBag

HeuristicNoReset(st) ==
    IF st.list_process_per_page = 0
    THEN [st EXCEPT !.consective_no_data_page_count = @ + 1]
    ELSE [st EXCEPT !.consective_no_data_page_count = 0]

\* the consecutive-empty-page counter after a page
Heuristic(st) ==
    IF st.list_process_per_page = 0
    THEN [st EXCEPT !.consective_no_data_page_count = @ + 1]
    ELSE [st EXCEPT !.list_process_per_page = 0, !.consective_no_data_page_count = 0]

SkipPage(p) == p + 2

\* `page_number += 1` at the end of an iteration that does not stop
NextPage(p) == p + 1

LastPageStrict(p, n) == p > n

\* `if page_number >= num_pages: break`
LastPage(p, n) == p >= n

\* run() after process_listings: the page is counted, the heuristic updated, and
\* the loop breaks or goes on to the next page
Decide ==
    /\ pc = "dispatch"
    /\ JoinDone
    /\ LET st == Heuristic([stats EXCEPT !.pages_processed = @ + 1]) IN
       /\ stats' = st
       /\ IF st.consective_no_data_page_count = 3 \/ LastPage(page_number, num_pages)
          THEN pc' = "report" /\ UNCHANGED page_number
          ELSE pc' = "loop" /\ page_number' = NextPage(page_number)
    /\ zero_pages' = IF new_rows = 0 THEN zero_pages + 1 ELSE 0
    /\ new_rows' = 0
    /\ UNCHANGED <<source, config, table, used, lock, num_pages, attempt, pending,
                   workers, req_base, calls,
                   unique_features, reports, interrupts, normvars, fetchvars, mapvars>>

\* the final statistics are printed
Report ==
    /\ pc = "report"
    /\ pc' = "stopped"
    /\ reports' = reports + 1
    /\ UNCHANGED <<source, config, table, used, lock, stats, page_number, num_pages,
                   attempt, pending, workers, req_base, new_rows, zero_pages, calls,
                   unique_features, interrupts, normvars, fetchvars, mapvars>>

InterruptExits(src, at) == "stopped"

\* where a KeyboardInterrupt raised in the main thread inside run()'s try block
\* takes it.  In Mobile.de's process_listings the exception first leaves the
\* `with ThreadPoolExecutor`, whose exit is shutdown(wait=True); everywhere else
\* it reaches `except KeyboardInterrupt` at once, and the report follows.
AfterInterrupt(src, at) ==
    IF src = "mobile" /\ at = "dispatch" THEN "shutdown" ELSE "report"

\* the listings still to be run after the interrupt.  AutoScout24: the loop that
\* starts the threads is left, no further thread starts.  Mobile.de: the
\* listings submitted so far stay queued for the pool's threads; an interrupt of
\* the shutdown leaves the queue to them.
PendingAfterInterrupt(src, at, ps) ==
    IF src = "autoscout24" THEN {<<>>}
    ELSE IF at = "dispatch" THEN {SubSeq(ps, 1, k) : k \in 0..Len(ps)}
    ELSE {ps}

\* Ctrl-C while the main thread is inside the try block of run()
Interrupt ==
    /\ pc \in {"loop", "request", "response", "dispatch", "shutdown"}
    /\ pc' = AfterInterrupt(source, pc)
    /\ pending' \in PendingAfterInterrupt(source, pc, pending)
    /\ interrupts' = interrupts + 1
    /\ UNCHANGED <<source, config, table, used, lock, stats, page_number, num_pages,
                   attempt, workers, req_base, new_rows, zero_pages, calls,
                   unique_features, reports, normvars, fetchvars, mapvars>>

\* shutdown(wait=True) returns: the pool's threads have run every submitted
\* listing; the KeyboardInterrupt goes on to run()'s except
ShutdownDone ==
    /\ pc = "shutdown"
    /\ JoinDone
    /\ pc' = "report"
    /\ UNCHANGED <<source, config, table, used, lock, stats, page_number, num_pages,
                   attempt, pending, workers, req_base, new_rows, zero_pages, calls,
                   unique_features, reports, interrupts, normvars, fetchvars, mapvars>>

-----------------------------------------------------------------------------
(* _make_request, attempt by attempt.                                      *)

\* what requests.get gives in one attempt: an exception (timeout, connection
\* error), or a response with its status code and the length of its text
Responses ==
    {[raised |-> TRUE, status_code |-> 0, length |-> 0]}
    \cup [raised : {FALSE}, status_code : {200, 403},
          length : {min_response_size - 1, min_response_size, min_response_size + 1}]

SuccessAtLeast(src, cfg, r) ==
    /\ r.status_code = 200
    /\ IF src = "mobile" THEN r.length >= cfg.min_response_size ELSE TRUE

\* the success test of _make_request: `response.status_code == 200`, and for
\* Mobile.de `and len(response.text) > self.config.min_response_size`
Success(src, cfg, r) ==
    /\ r.status_code = 200
    /\ IF src = "mobile" THEN r.length > cfg.min_response_size ELSE TRUE

\* the outcome of the attempt
Outcome(src, cfg, r) ==
    IF r.raised THEN "exc" ELSE IF Success(src, cfg, r) THEN "ok" ELSE "bad"

BackoffLinear(a) == a + 1

\* time.sleep(2 ** attempt)
Backoff(a) == 2 ^ a

\* one pass of `for attempt in range(self.config.max_retries)`, called with no
\* other thread running: requests.get, the counter, the success test and
\* `return response`, or the backoff sleep before the next attempt, or after
\* the last attempt failed_requests += 1 and `return None`
MakeRequestAttempt ==
    \E r \in Responses :
        /\ pc = "fetch"
        /\ responses' = Append(responses, r)
        /\ LET o == Outcome(source, config, r)
               st == IF Counted(o) THEN [stats EXCEPT !.total_requests = @ + 1] ELSE stats
           IN  IF o = "ok"
               THEN pc' = "returned" /\ stats' = st /\ UNCHANGED <<attempt, sleeps>>
               ELSE IF Exhausted(attempt)
               THEN /\ pc' = "returned_none"
                    /\ stats' = [st EXCEPT !.failed_requests = @ + 1]
                    /\ UNCHANGED <<attempt, sleeps>>
               ELSE /\ pc' = "fetch"
                    /\ stats' = st
                    /\ attempt' = attempt + 1
                    /\ sleeps' = Append(sleeps, Backoff(attempt))
        /\ UNCHANGED <<source, config, table, used, lock, page_number, num_pages,
                       pending, workers, req_base, new_rows, zero_pages, calls,
                       unique_features, reports, interrupts, normvars, mapvars>>

-----------------------------------------------------------------------------
(* The search-result normalizers: parse_listing and parse_basic_listing.   *)

\* Python's [] and {}
EmptyList == "<[]>"
EmptyMap == "<{}>"

\* a JSON null where the payload should have a mapping ("price": null)
NullObject == "<null object>"

\* the values a field of a raw listing can have, Missing when the payload does
\* not have the field
RawValues == {Missing, None, "", EmptyList, EmptyMap, "N/A", "unknown", "x"}

\* a raw listing of a search page: its id, the formatted price inside its price
\* mapping (or a null instead of the mapping), its list of images, the contact
\* name inside its seller mapping, and one attribute of its mapping of vehicle
\* attributes
RawListings ==
    [id : {Missing, None, "a"}, price : RawValues \cup {NullObject},
     images : {Missing, EmptyList, "imgs"}, seller : {Missing, "", "x"}, attr : RawValues]

NoListing ==
    [id |-> Missing, price |-> Missing, images |-> Missing, seller |-> Missing,
     attr |-> Missing]

\* a record without keys; a key a record does not have is Missing in the model
NotParsed ==
    [id |-> Missing, price |-> Missing, images |-> Missing, seller_name |-> Missing,
     attr |-> Missing]

\* d.get(key)
Get(v) == IF v = Missing THEN None ELSE v

\* d.get(key, '')
GetOrEmpty(v) == IF v = Missing THEN "" ELSE v

\* `if v:`
Truthy(v) == v \notin {Missing, None, "", EmptyList, EmptyMap}

\* json.dumps of the image list
DumpImages(v) == IF v = "imgs" THEN "[\"imgs\"]" ELSE "[]"

\* `value not in [None, "", [], {}]` for the items of a nested mapping
KeptNested(v) == v \notin {Missing, None, "", EmptyList, EmptyMap}

\* parse_listing's clean-up: `v not in [None, "", [], {}, "N/A", "unknown"]`
CleanUp(v) == IF v \in {None, "", EmptyList, EmptyMap, "N/A", "unknown"} THEN Missing ELSE v

\* AutoScout24HourlyScraper.parse_listing.  data.get("price", {}) is None for a
\* null price, and None.get raises AttributeError into the one try/except of
\* the function, which returns {}
parse_listing(data) ==
    IF data.price = NullObject THEN NotParsed
    ELSE
    [id          |-> CleanUp(Get(data.id)),
     price       |-> IF Truthy(data.price) THEN CleanUp(data.price) ELSE Missing,
     images      |-> CleanUp(DumpImages(data.images)),
     seller_name |-> CleanUp(GetOrEmpty(data.seller)),
     attr        |-> IF KeptNested(data.attr) THEN CleanUp(data.attr) ELSE Missing]

\* MobileDeHourlyScraper.parse_basic_listing: the values are stored as they come;
\* a null price is skipped by `if 'price' in listing and listing['price']`
parse_basic_listing(data) ==
    [id          |-> Get(data.id),
     price       |-> IF data.price = NullObject THEN "" ELSE GetOrEmpty(data.price),
     images      |-> Missing,
     seller_name |-> GetOrEmpty(data.seller),
     attr        |-> data.attr]

-----------------------------------------------------------------------------
(* The end of Mobile.de's parse_detail_listing: gallery images, feature    *)
(* flags and FIELD_MAPPING.                                                *)

\* keys of basic_data in the order they were inserted: from the search result
\* (title, attr_ml, attr_gi), then from the attributes of the ad
MapKeys == <<"title", "attr_ml", "attr_gi", "availability", "HU">>

\* the keys a record can have: those, the canonical names, the images and the
\* flag of the known feature
AllKeys ==
    {MapKeys[i] : i \in DOMAIN MapKeys} \cup {"Milage", "Last inspection", "images", "abs"}

FieldValues == {"x", "y"}

\* a record without keys
NoRecord == [k \in AllKeys |-> Missing]

\* basic_data as parse_basic_listing and the attributes of the ad leave it: a
\* title, and any of the other keys
BasicRecords ==
    {[k \in AllKeys |-> IF k = "title" THEN t ELSE IF k \in DOMAIN f THEN f[k] ELSE Missing] :
        t \in FieldValues,
        f \in [{"attr_ml", "attr_gi", "availability", "HU"} -> FieldValues \cup {Missing}]}

\* ad_data.get('galleryImages', []): no image, images with a srcSet string, or an
\* image whose srcSet is null
Galleries == {"none", "urls", "null_srcset"}

\* MobileDeHourlyScraper.FIELD_MAPPING, for the keys of the model
FIELD_MAPPING ==
    ("attr_ml" :> "Milage") @@ ("attr_gi" :> "Last inspection")
    @@ ("HU" :> "Last inspection") @@ ("availability" :> None)

\* basic_data['images'] = json.dumps(image_urls)
WithImages(rec, g) ==
    [rec EXCEPT !["images"] = IF g = "urls" THEN "[\"url\"]" ELSE "[]"]

\* for feature in self.unique_features: basic_data[feature] = feature in features
WithFlags(rec, features) ==
    [k \in AllKeys |-> IF k \in unique_features
                       THEN (IF k \in features THEN "True" ELSE "False")
                       ELSE rec[k]]

\* the field mapping from the i-th key of list(basic_data.keys()) on: a key of
\* FIELD_MAPPING is popped and its value stored under the new key, if there is one
RECURSIVE MapFrom(_, _)
MapFrom(rec, i) ==
    IF i > Len(MapKeys) THEN rec
    ELSE LET old_key == MapKeys[i] IN
         IF rec[old_key] = Missing \/ old_key \notin DOMAIN FIELD_MAPPING
         THEN MapFrom(rec, i + 1)
         ELSE LET value == rec[old_key]
                  new_key == FIELD_MAPPING[old_key]
                  popped == [rec EXCEPT ![old_key] = Missing]
              IN  MapFrom(IF new_key # None THEN [popped EXCEPT ![new_key] = value]
                          ELSE popped, i + 1)

\* parse_detail_listing from the gallery images on.  img['srcSet'].split raises
\* AttributeError for a null srcSet: the except returns basic_data as it is
ParseDetailTail ==
    \E features \in SUBSET KnownFeatures :
        /\ pc = "detail_tail"
        /\ pc' = "detail_returned"
        /\ mapped' = IF gallery = "null_srcset" THEN record
                     ELSE MapFrom(WithFlags(WithImages(record, gallery), features), 1)
        /\ UNCHANGED <<source, config, table, used, lock, stats, page_number, num_pages,
                       attempt, pending, workers, req_base, new_rows, zero_pages, calls,
                       unique_features, reports, interrupts, normvars, fetchvars,
                       record, gallery>>

-----------------------------------------------------------------------------
(* Specifications.                                                         *)

\* the state when run() is entered: the table holds what earlier runs stored
InitRun(src, cfg, tbl) ==
    /\ source = src
    /\ config = cfg
    /\ table = tbl
    /\ used = 0
    /\ lock = FALSE
    /\ stats = ScraperStats
    /\ page_number = 1
    /\ num_pages = 0
    /\ pc = "loop"
    /\ attempt = 0
    /\ pending = <<>>
    /\ workers = EmptyBag
    /\ req_base = 0
    /\ new_rows = 0
    /\ zero_pages = 0
    /\ calls = <<>>
    /\ unique_features = KnownFeatures
    /\ reports = 0
    /\ interrupts = 0
    /\ listing = NoListing
    /\ parsed = NotParsed
    /\ responses = <<>>
    /\ sleeps = <<>>
    /\ record = NoRecord
    /\ gallery = "none"
    /\ mapped = NoRecord

EmptyOrA(src) == {EmptyBag, SetToBag({StoredRow("a", src)})}
OnlyA(src) == {SetToBag({StoredRow("a", src)})}

Init == \E src \in Sources : \E tbl \in OnlyA(src) : InitRun(src, DefaultConfig(src), tbl)

Next ==
    \/ LoopTest
    \/ PageRequest
    \/ PageResponse(SmallPages(source), 0..1)
    \/ StartThread
    \/ GateGetConn
    \/ GateQuery
    \/ DupLoad
    \/ DupStore
    \/ Request
    \/ RequestStore
    \/ FailLoad
    \/ FailStore
    \/ FeatureUpdate
    \/ FeatureLoop
    \/ LockAcquire
    \/ InsertExec
    \/ Decide
    \/ Report

\* one run of a scraper, as main() configures it, over a source of one page of
\* at most MaxItems listings
Spec == Init /\ [][Next]_vars

\* pages of at most one listing
OnePages(src) == SeqsUpTo(Items(src), 1)

InitPages ==
    \E src \in Sources : \E tbl \in EmptyOrA(src) : InitRun(src, SmallConfig(src), tbl)

NextPages ==
    \/ LoopTest
    \/ PageRequest
    \/ PageResponse(OnePages(source), 0..MaxNumPages)
    \/ StartThread
    \/ GateGetConn
    \/ GateQuery
    \/ DupLoad
    \/ DupStore
    \/ Request
    \/ RequestStore
    \/ FailLoad
    \/ FailStore
    \/ FeatureUpdate
    \/ FeatureLoop
    \/ LockAcquire
    \/ InsertExec
    \/ Decide
    \/ Report

\* one run of a scraper with a small configuration over a source of up to
\* MaxNumPages pages of at most one listing
SpecPages == InitPages /\ [][NextPages]_vars


\* the same, with the main thread and the item threads scheduled again and
\* again: every page fetch and every item thread returns
FairPages == SpecPages /\ WF_vars(NextPages)

InitWide ==
    \E src \in Sources : \E tbl \in OnlyA(src) : InitRun(src, DefaultConfig(src), tbl)

NextWide ==
    \/ LoopTest
    \/ PageRequest
    \/ PageResponse(WidePages(source), {1})
    \/ StartThread
    \/ GateGetConn
    \/ GateQuery
    \/ DupLoad
    \/ DupStore
    \/ Request
    \/ RequestStore
    \/ FailLoad
    \/ FailStore
    \/ FeatureUpdate
    \/ FeatureLoop
    \/ LockAcquire
    \/ InsertExec
    \/ Decide
    \/ Report

\* one run of a scraper, as main() configures it, over a source whose one page
\* is wider than Mobile.de's thread pool
SpecWide == InitWide /\ [][NextWide]_vars

NextGate ==
    \/ LoopTest
    \/ PageRequest
    \/ PageResponse(PoolPages(source), {1})
    \/ StartThread
    \/ GateGetConn
    \/ GateQuery

\* the beginning of a run over a page wider than the connection pool, up to the
\* duplicate checks: a thread that has returned from check_id_exists is not
\* scheduled again, so every behaviour is the beginning of a behaviour of the run
SpecGate == InitWide /\ [][NextGate]_vars

\* the records a caller can hand to insert_vehicle
Records ==
    [vehicle_id : {Missing, None, "", "a"}, data_source : {Missing, "", "mobile"},
     detail : BOOLEAN]

\* the database used directly, as in the example at the end of db.py
InitStore ==
    /\ source = "mobile"
    /\ config = DefaultConfig(source)
    /\ table \in EmptyOrA(source)
    /\ used = 0
    /\ lock = FALSE
    /\ stats = ScraperStats
    /\ page_number = 1
    /\ num_pages = 0
    /\ pc = "database"
    /\ attempt = 0
    /\ pending = <<>>
    /\ workers = EmptyBag
    /\ req_base = 0
    /\ new_rows = 0
    /\ zero_pages = 0
    /\ calls = <<>>
    /\ unique_features = KnownFeatures
    /\ reports = 0
    /\ interrupts = 0
    /\ listing = NoListing
    /\ parsed = NotParsed
    /\ responses = <<>>
    /\ sleeps = <<>>
    /\ record = NoRecord
    /\ gallery = "none"
    /\ mapped = NoRecord

\* db.insert_vehicle(data), logged with the table before and after it
CallInsert ==
    \E data \in Records, dbok \in BOOLEAN :
        /\ pc = "database"
        /\ Len(calls) < MaxCalls
        /\ LET res == insert_vehicle(table, data, dbok) IN
           /\ table' = res.table
           /\ calls' = Append(calls, [data |-> data, dbok |-> dbok, ret |-> res.ret,
                                      before |-> table, after |-> res.table])
        /\ UNCHANGED <<source, config, used, lock, stats, page_number, num_pages, pc,
                       attempt, pending, workers, req_base, new_rows, zero_pages,
                       unique_features, reports, interrupts, normvars, fetchvars, mapvars>>

NextStore == CallInsert

\* up to MaxCalls calls of insert_vehicle, one after the other
SpecStore == InitStore /\ [][NextStore]_vars

\* vehicle ids and source names a caller can pass to generate_unique_id
UidVehicleIds == {"a", "a_b", "b", "c"}
UidSources == {"mobile", "b_mobile", "autoscout24"}

\* db.generate_unique_id(vehicle_id, data_source), logged with its result
CallGenerate ==
    \E v \in UidVehicleIds, d \in UidSources :
        /\ pc = "database"
        /\ Len(calls) < MaxCalls
        /\ calls' = Append(calls, [vehicle_id |-> v, data_source |-> d,
                                   unique_id |-> generate_unique_id(v, d)])
        /\ UNCHANGED <<source, config, table, used, lock, stats, page_number, num_pages,
                       pc, attempt, pending, workers, req_base, new_rows, zero_pages,
                       unique_features, reports, interrupts, normvars, fetchvars, mapvars>>

NextUid == CallGenerate

\* up to MaxCalls calls of generate_unique_id
SpecUid == InitStore /\ [][NextUid]_vars

\* pages of at most MaxItems listings, all of them new; the detail page of "c"
\* may list the feature "gps"
NewPages(src) == SeqsUpTo([id : {"b", "c"}, type : {"ad"}], MaxItems)

InitFeat ==
    \E src \in Sources : InitRun(src, SmallConfig(src), EmptyBag)

NextFeat ==
    \/ LoopTest
    \/ PageRequest
    \/ PageResponse(NewPages(source), {1})
    \/ StartThread
    \/ GateGetConn
    \/ GateQuery
    \/ DupLoad
    \/ DupStore
    \/ Request
    \/ RequestStore
    \/ FailLoad
    \/ FailStore
    \/ FeatureUpdate
    \/ FeatureLoop
    \/ LockAcquire
    \/ InsertExec
    \/ Decide
    \/ Report

\* one run of a scraper with a small configuration over one page of new
\* listings, whose detail pages are fetched and parsed side by side
SpecFeat == InitFeat /\ [][NextFeat]_vars

\* pages of at most one listing, the same on every page
IntPages(src) == SeqsUpTo([id : {"b"}, type : {"ad"}], 1)

InitInt ==
    \E src \in Sources : InitRun(src, SmallConfig(src), EmptyBag)

NextInt ==
    \/ LoopTest
    \/ PageRequest
    \/ PageResponse(IntPages(source), 0..MaxNumPages)
    \/ StartThread
    \/ GateGetConn
    \/ GateQuery
    \/ DupLoad
    \/ DupStore
    \/ Request
    \/ RequestStore
    \/ FailLoad
    \/ FailStore
    \/ FeatureUpdate
    \/ FeatureLoop
    \/ LockAcquire
    \/ InsertExec
    \/ Decide
    \/ Report
    \/ Interrupt
    \/ ShutdownDone

\* a run over up to MaxNumPages pages that the user may interrupt with Ctrl-C
SpecInt == InitInt /\ [][NextInt]_vars

\* the same, with the main thread and the item threads scheduled again and again
FairInt == SpecInt /\ WF_vars(NextInt)

\* a page of MaxItems listings: one new listing and otherwise the stored one
IsoPages(src) == {PageOf(MaxItems)}

InitIso ==
    \E src \in Sources : \E tbl \in OnlyA(src) : InitRun(src, DefaultConfig(src), tbl)

NextIso ==
    \/ LoopTest
    \/ PageRequest
    \/ PageResponse(IsoPages(source), {1})
    \/ StartThread
    \/ GateGetConn
    \/ GateQuery
    \/ DupLoad
    \/ DupStore
    \/ Request
    \/ RequestStore
    \/ FailLoad
    \/ FailStore
    \/ FeatureUpdate
    \/ FeatureLoop
    \/ LockAcquire
    \/ InsertExec
    \/ Decide
    \/ Report

\* a run, as main() configures it, over one page of MaxItems listings
SpecIso == InitIso /\ [][NextIso]_vars

\* the same, with the main thread and the item threads scheduled again and again
FairIso == SpecIso /\ WF_vars(NextIso)

\* a page of Mobile.de: an entry that is not an ad, and an ad with the same id
BannerPages(src) == {<<[id |-> "a", type |-> "banner"], [id |-> "a", type |-> "ad"]>>}

\* the listing may be stored already
InitBanner ==
    \E tbl \in EmptyOrA("mobile") : InitRun("mobile", DefaultConfig("mobile"), tbl)

NextBanner ==
    \/ LoopTest
    \/ PageRequest
    \/ PageResponse(BannerPages(source), {1})
    \/ StartThread
    \/ GateGetConn
    \/ GateQuery
    \/ DupLoad
    \/ DupStore
    \/ Request
    \/ RequestStore
    \/ FailLoad
    \/ FailStore
    \/ FeatureUpdate
    \/ FeatureLoop
    \/ LockAcquire
    \/ InsertExec
    \/ Decide
    \/ Report

\* a run of Mobile.de, as main() configures it, over one page that has an entry
\* which is not an ad
SpecBanner == InitBanner /\ [][NextBanner]_vars

\* _make_request is entered by a scraper as main() configures it
InitFetch ==
    /\ source \in Sources
    /\ config = DefaultConfig(source)
    /\ table = EmptyBag
    /\ used = 0
    /\ lock = FALSE
    /\ stats = ScraperStats
    /\ page_number = 1
    /\ num_pages = 0
    /\ pc = "fetch"
    /\ attempt = 0
    /\ pending = <<>>
    /\ workers = EmptyBag
    /\ req_base = 0
    /\ new_rows = 0
    /\ zero_pages = 0
    /\ calls = <<>>
    /\ unique_features = KnownFeatures
    /\ reports = 0
    /\ interrupts = 0
    /\ listing = NoListing
    /\ parsed = NotParsed
    /\ responses = <<>>
    /\ sleeps = <<>>
    /\ record = NoRecord
    /\ gallery = "none"
    /\ mapped = NoRecord

NextFetch == MakeRequestAttempt

\* one call of _make_request, with every response requests.get can give
SpecFetch == InitFetch /\ [][NextFetch]_vars

\* Mobile.de's parse_detail_listing has the ad data of a listing and reaches the
\* gallery images
InitMap ==
    /\ source = "mobile"
    /\ config = DefaultConfig(source)
    /\ table = EmptyBag
    /\ used = 0
    /\ lock = FALSE
    /\ stats = ScraperStats
    /\ page_number = 1
    /\ num_pages = 0
    /\ pc = "detail_tail"
    /\ attempt = 0
    /\ pending = <<>>
    /\ workers = EmptyBag
    /\ req_base = 0
    /\ new_rows = 0
    /\ zero_pages = 0
    /\ calls = <<>>
    /\ unique_features = KnownFeatures
    /\ reports = 0
    /\ interrupts = 0
    /\ listing = NoListing
    /\ parsed = NotParsed
    /\ responses = <<>>
    /\ sleeps = <<>>
    /\ record \in BasicRecords
    /\ gallery \in Galleries
    /\ mapped = NoRecord

NextMap == ParseDetailTail

\* the end of parse_detail_listing applied to one record
SpecMap == InitMap /\ [][NextMap]_vars

\* a raw listing is handed to the search-result normalizer of a scraper
InitParse ==
    /\ source \in Sources
    /\ config = DefaultConfig(source)
    /\ table = EmptyBag
    /\ used = 0
    /\ lock = FALSE
    /\ stats = ScraperStats
    /\ page_number = 1
    /\ num_pages = 0
    /\ pc = "normalizer"
    /\ attempt = 0
    /\ pending = <<>>
    /\ workers = EmptyBag
    /\ req_base = 0
    /\ new_rows = 0
    /\ zero_pages = 0
    /\ calls = <<>>
    /\ unique_features = KnownFeatures
    /\ reports = 0
    /\ interrupts = 0
    /\ listing \in RawListings
    /\ parsed = NotParsed
    /\ responses = <<>>
    /\ sleeps = <<>>
    /\ record = NoRecord
    /\ gallery = "none"
    /\ mapped = NoRecord

\* basic_data = self.parse_listing(listing) / self.parse_basic_listing(listing)
Normalize ==
    /\ pc = "normalizer"
    /\ pc' = "normalized"
    /\ parsed' = IF source = "autoscout24" THEN parse_listing(listing)
                 ELSE parse_basic_listing(listing)
    /\ UNCHANGED <<source, config, table, used, lock, stats, page_number, num_pages,
                   attempt, pending, workers, req_base, new_rows, zero_pages, calls,
                   unique_features, reports, interrupts, listing, fetchvars,
                   mapvars>>

NextParse == Normalize

\* the normalizer applied to one raw listing
SpecParse == InitParse /\ [][NextParse]_vars



-----------------------------------------------------------------------------
(* The claims.                                                             *)

\* the unique id of the listing a thread works on
WorkerUid(w) == generate_unique_id(ListingId(w), source)

\* rows of tbl for one (vehicle_id, data_source)
RowCount(tbl, v, d) ==
    LET S == {r \in BagToSet(tbl) : r.vehicle_id = v /\ r.data_source = d}
    IN  BagCardinality([r \in S |-> tbl[r]])

\* a value is present and not empty
Given(v) == v \notin {Missing, None, ""}

\* C1: under every interleaving of the item threads the table holds at most one
\* row per unique id, that is per (vehicle_id, data_source)
C1_OneRowPerUniqueId ==
    \A r1 \in BagToSet(table) :
        /\ table[r1] = 1
        /\ RowCount(table, r1.vehicle_id, r1.data_source) = 1
        /\ \A r2 \in BagToSet(table) : r1.unique_id = r2.unique_id => r1 = r2

\* C1 witness: a thread that passed the gate (check_id_exists returned False) is
\* inside insert_vehicle for an id that another thread has inserted since
C1_Witness ==
    \E w \in BagToSet(workers) :
        /\ w.pc = "insert"
        /\ w.gate = "miss"
        /\ SelectExists(table, WorkerUid(w))
        /\ new_rows = 1

FetchPcs == {"request", "req_store", "fail_load", "fail_store"}

\* C3: a thread is in the detail fetch only after check_id_exists has returned
\* False for its listing, and a thread whose listing was found in the table does
\* nothing but count the duplicate
C3_GateBeforeFetch ==
    \A w \in BagToSet(workers) :
        /\ w.pc \in FetchPcs => w.gate = "miss"
        /\ w.gate = "hit" => w.pc \in {"dup_load", "dup_store"}
        /\ w.gate = "none" => w.pc \in {"gate", "gate_q"}

\* C3 witness: one thread skips a listing found in the table while another
\* fetches the detail of a new one
C3_Witness ==
    \E w1, w2 \in BagToSet(workers) :
        /\ w1.gate = "hit" /\ w1.pc = "dup_store"
        /\ w2.gate = "miss" /\ w2.pc = "req_store"

\* C4: insert_vehicle returns False and leaves the table unchanged for a record
\* without vehicle_id or data_source, or with an empty one; every row of the
\* table has a vehicle_id and a data_source that are not empty
C4_RequiredFields ==
    /\ \A i \in DOMAIN calls :
          ~(Given(calls[i].data.vehicle_id) /\ Given(calls[i].data.data_source))
          => ~calls[i].ret /\ calls[i].after = calls[i].before
    /\ \A r \in BagToSet(table) : Given(r.vehicle_id) /\ Given(r.data_source)

\* C4 witness: after a record was inserted, a record with an empty data_source
\* was handed to insert_vehicle
C4_Witness ==
    /\ Len(calls) = 2
    /\ calls[1].ret
    /\ calls[2].data.vehicle_id = "a" /\ calls[2].data.data_source = ""
    /\ calls[2].dbok

\* C5: once three pages in a row have added no row to the table, the run has
\* stopped: no further page is requested
C5_StopAfterThreeEmptyPages ==
    zero_pages >= 3 => pc \in {"report", "stopped"}

\* C6: when _make_request of the main thread returns the response of attempt
\* k+1 (0-based attempt k), total_requests has grown by exactly k+1 since the call
C6_RetryAccounting ==
    pc = "response" => stats.total_requests = req_base + attempt + 1

\* C7: after a page the consecutive-empty-page counter is 0 if the page added a
\* row to the table and one more than before if it added none
C7_EmptyPageCounter ==
    [][(pc = "dispatch" /\ pc' # "dispatch")
        => stats'.consective_no_data_page_count =
             IF new_rows > 0 THEN 0 ELSE stats.consective_no_data_page_count + 1]_vars

\* C8: every running thread belongs to the page being processed, and while the
\* main thread tests the loop, requests a page or decodes it no thread runs and
\* no listing waits for one
C8_PageBarrier ==
    /\ \A w \in BagToSet(workers) : w.page = page_number
    /\ pc \in {"loop", "request", "response"} => workers = EmptyBag /\ pending = <<>>

\* C8 witness: the second page is requested after the thread of the first page
\* has inserted its listing
C8_Witness ==
    /\ pc = "request"
    /\ page_number = 2
    /\ stats.pages_processed = 1
    /\ stats.total_listings = 1
    /\ BagCardinality(table) >= 1

\* C9: for either scraper the number of item threads running at the same time is
\* at most the configured pool width
C9_BoundedFanOut == Running <= max_workers

\* C10: no thread calls _get_connection while all maxconn connections of the pool
\* are checked out
C10_PoolNeverExhausted ==
    ~(PoolExhausted /\ \E w \in BagToSet(workers) : w.pc \in {"gate", "lock"})

\* the item threads of ws at position p
NumAt(ws, p) ==
    LET S == {w \in BagToSet(ws) : w.pc = p}
    IN  BagCardinality([w \in S |-> ws[w]])

\* C11: no increment of total_requests, failed_requests or duplicates_skipped is
\* lost: every thread that completes an increment leaves the counter one higher
\* than it was, so that the counters equal the number of increments when the
\* threads of the page have finished
C11_NoLostIncrement ==
    [][/\ NumAt(workers', "req_store") < NumAt(workers, "req_store")
            => stats'.total_requests = stats.total_requests + 1
       /\ NumAt(workers', "fail_store") < NumAt(workers, "fail_store")
            => stats'.failed_requests = stats.failed_requests + 1
       /\ NumAt(workers', "dup_store") < NumAt(workers, "dup_store")
            => stats'.duplicates_skipped = stats.duplicates_skipped + 1]_vars

\* C12: no thread adds a name to unique_features while another thread is
\* iterating over it
C12_FeatureSetLocked ==
    [][unique_features' # unique_features
         => ~\E w \in BagToSet(workers) : w.pc = "feat_iter"]_vars

\* C13: unique_features never loses a name, and every record parse_detail_listing
\* returns has every feature name known at that moment as a key
C13_FeatureSetMonotone ==
    /\ KnownFeatures \subseteq unique_features
    /\ \A w \in BagToSet(workers) :
          w.pc \in {"lock", "insert"} => w.known \subseteq w.keys

\* C14: a listing whose detail fetch exhausted its retries is skipped: its thread
\* does not go on to insert_vehicle
C14_FailedFetchSkipped ==
    \A w \in BagToSet(workers) : w.failed => w.pc \notin {"lock", "insert"}

\* C15: insert_vehicle called for a unique id that already has a row returns
\* False to the caller and leaves the table, and so the row the first writer
\* stored, exactly as it was
C15_FirstWriterWins ==
    \A i \in DOMAIN calls :
        LET c == calls[i] IN
        (/\ Given(c.data.vehicle_id) /\ Given(c.data.data_source)
         /\ SelectExists(c.before, generate_unique_id(c.data.vehicle_id, c.data.data_source)))
        => ~c.ret /\ c.after = c.before

\* C15 witness: the second call has the unique id of the row the first call
\* stored, with another content, and the database raises no other error
C15_Witness ==
    /\ Len(calls) = 2
    /\ calls[1].ret
    /\ calls[1].before = EmptyBag
    /\ calls[2].data.vehicle_id = calls[1].data.vehicle_id
    /\ calls[2].data.data_source = calls[1].data.data_source
    /\ calls[2].data.detail # calls[1].data.detail
    /\ calls[2].dbok

\* C16: whatever happens to one listing of a page, process_listings returns and
\* run() goes on to the decision for the page
C16_ItemIsolation ==
    (pc = "dispatch") ~> (pc \in {"loop", "report"})

\* C16 witness: the page of two listings has been processed; the thread of the
\* new listing ended before its insert (it is not counted and not stored), the
\* thread of the stored listing counted the duplicate
C16_Witness ==
    /\ pc \in {"loop", "report"}
    /\ stats.pages_processed = 1
    /\ stats.total_listings = 0
    /\ stats.failed_requests = 0
    /\ stats.duplicates_skipped = 1
    /\ ~SelectExists(table, generate_unique_id("b", source))

\* C17: every run ends with the final statistics printed exactly once
C17_ReportOnce ==
    <>[](pc = "stopped" /\ reports = 1)

\* C17 witness: a run that was interrupted while the listings of its first page
\* were being processed (one is counted, the page is not) has printed the
\* statistics
C17_Witness ==
    /\ pc = "stopped"
    /\ reports = 1
    /\ interrupts > 0
    /\ stats.pages_processed = 0
    /\ stats.total_listings > 0

\* C18: once the final statistics have been printed no thread inserts a row or
\* changes a counter
C18_QuietAfterReport ==
    [][pc = "stopped" => table' = table /\ stats' = stats]_vars

\* C19: total_listings counts the rows the run adds to the table: it grows by
\* one exactly when a row is added
C19_PersistedCounter ==
    [][stats'.total_listings - stats.total_listings
         = BagCardinality(table') - BagCardinality(table)]_vars

\* C20: the record the search-result normalizer of either scraper returns has no
\* key whose value is "", [], {}, None, "N/A" or "unknown"
C20_Sanitized ==
    \A k \in DOMAIN parsed :
        parsed[k] \notin {"", EmptyList, EmptyMap, None, "N/A", "unknown"}

\* C21: generate_unique_id is injective: two calls whose (vehicle_id,
\* data_source) pairs of non-empty strings differ return different unique ids
C21_UniqueIdInjective ==
    \A i, j \in DOMAIN calls :
        (calls[i].vehicle_id # calls[j].vehicle_id
           \/ calls[i].data_source # calls[j].data_source)
        => calls[i].unique_id # calls[j].unique_id

\* the unique id insert_vehicle derives for the record of a thread's listing
StoreUid(w) == InsertRow(convert_vehicle_data(w, w.detail, source)).unique_id

\* C22: check_id_exists returns True exactly when the table holds a row with the
\* unique id insert_vehicle derives for the listing; a listing the run has
\* inserted is found by every later check and is skipped (pages of one listing:
\* no other thread changes the table between the check and the end of the thread)
C22_GateStoreConsistent ==
    \A w \in BagToSet(workers) :
        /\ w.gate = "hit" => SelectExists(table, StoreUid(w))
                             /\ w.pc \in {"dup_load", "dup_store"}
        /\ w.gate = "miss" => ~SelectExists(table, StoreUid(w))

\* C22 witness: the listing "b", which only this run can have inserted, is met
\* again on a later page and check_id_exists has returned True for it
C22_Witness ==
    \E w \in BagToSet(workers) :
        /\ w.id = "b"
        /\ w.page >= 2
        /\ w.gate = "hit"
        /\ w.pc = "dup_store"
        /\ SelectExists(table, StoreUid(w))

\* C23: no page with an index above max_pages is requested, and the loop is left
\* for its max_pages condition only after page max_pages has been processed
C23_MaxPageStop ==
    [][/\ pc' = "request" => page_number' <= config.max_pages
       /\ (pc = "loop" /\ pc' = "report") => page_number > config.max_pages]_vars

\* C24: after a page whose index is at least the page count its response
\* reported has been processed, the run goes to the report without another page
\* request
C24_LastPageStop ==
    [][/\ (pc = "dispatch" /\ pc' # "dispatch" /\ page_number >= num_pages)
            => pc' = "report" /\ page_number' = page_number
       /\ pc \in {"report", "stopped"} => pc' \in {"report", "stopped"}]_vars

\* C24 witness: the run has stopped after processing page 2 of 2, which was not
\* the third page in a row without a new listing
C24_Witness ==
    /\ pc = "report"
    /\ page_number = 2
    /\ num_pages = 2
    /\ stats.pages_processed = 2
    /\ stats.consective_no_data_page_count < 3

\* C25: a page whose fetch has failed (_make_request gave up), whose payload
\* cannot be decoded or whose list of listings is empty ends the run: no thread
\* is started for it, the run goes to the report, and from there no page is
\* requested again
C25_FailedPageEndsRun ==
    [][/\ (pc = "request" /\ pc' \notin {"request", "response"})
            => pc' = "report" /\ pending' = <<>> /\ workers' = EmptyBag
       /\ (pc = "response" /\ pc' # "dispatch")
            => pc' = "report" /\ pending' = <<>> /\ workers' = EmptyBag
       /\ pc \in {"report", "stopped"}
            => pc' \in {"report", "stopped"} /\ pending' = <<>> /\ workers' = EmptyBag
                 /\ page_number' = page_number]_vars

\* C25 witness: the first page was processed and the fetch of the second page
\* failed; the run is at the report
C25_Witness ==
    /\ pc = "report"
    /\ page_number = 2
    /\ stats.pages_processed = 1
    /\ stats.failed_requests = 1
    /\ workers = EmptyBag

\* a response passes: it is a response with status 200 and, for Mobile.de, a
\* text longer than min_response_size
Passes(r) ==
    /\ ~r.raised
    /\ r.status_code = 200
    /\ source = "mobile" => r.length > min_response_size

\* C26: _make_request returns a response only if it passes; a response that does
\* not pass is never the one returned and is followed by another attempt until
\* max_retries attempts are made; no attempt follows a response that passes
C26_FetchSuccess ==
    /\ pc = "returned" => responses # <<>> /\ Passes(responses[Len(responses)])
    /\ \A i \in DOMAIN responses :
          Passes(responses[i]) => i = Len(responses) /\ pc = "returned"
    /\ pc = "returned_none" => Len(responses) = config.max_retries

\* C26 witness: Mobile.de got status 200 with a text of exactly
\* min_response_size characters, tried again and returned the longer response
C26_Witness ==
    /\ source = "mobile"
    /\ pc = "returned"
    /\ Len(responses) = 2
    /\ responses[1].status_code = 200 /\ responses[1].length = min_response_size
    /\ responses[2].length = min_response_size + 1

\* the attempts of the call that have failed so far
FailedAttempts == IF pc = "returned" THEN Len(responses) - 1 ELSE Len(responses)

\* C27: _make_request makes at most max_retries attempts; after the failed
\* attempt number k < max_retries it has slept 2^(k-1) seconds, and after the
\* failed attempt number max_retries it has not slept
C27_BackoffSchedule ==
    /\ Len(responses) <= config.max_retries
    /\ Len(sleeps) = IF FailedAttempts < config.max_retries THEN FailedAttempts
                     ELSE config.max_retries - 1
    /\ \A k \in DOMAIN sleeps : sleeps[k] = 2 ^ (k - 1)

\* C27 witness: every one of Mobile.de's five attempts failed; the call slept
\* 1, 2, 4 and 8 seconds and returned None
C27_Witness ==
    /\ source = "mobile"
    /\ pc = "returned_none"
    /\ Len(responses) = 5
    /\ sleeps = <<1, 2, 4, 8>>
    /\ stats.failed_requests = 1

\* C28: when one extraction step of the normalizer fails (here: the price of the
\* raw listing is null instead of a mapping), only that field is omitted: the
\* record is the one the normalizer returns for the same listing without a price
C28_FieldIsolation ==
    (pc = "normalized" /\ listing.price = NullObject)
    => parsed = IF source = "autoscout24"
                THEN parse_listing([listing EXCEPT !.price = Missing])
                ELSE parse_basic_listing([listing EXCEPT !.price = Missing])

\* C29: after FIELD_MAPPING has been applied the record has no key of the table
\* (so no field mapped to nothing), and the value of every field that has a
\* rename target is present under that target
C29_FieldMapping ==
    (pc = "detail_returned" /\ gallery # "null_srcset")
    => \A k \in DOMAIN FIELD_MAPPING :
          /\ mapped[k] = Missing
          /\ (FIELD_MAPPING[k] # None /\ record[k] # Missing)
                => mapped[FIELD_MAPPING[k]] = record[k]

\* C30: the record of a listing whose detail payload was parsed has one flag for
\* every name unique_features holds when the record is returned, and the flag
\* is True exactly for the names in the listing's own feature list
C30_FeatureFlags ==
    \A w \in BagToSet(workers) :
        (w.pc \in {"lock", "insert"} /\ w.detail)
        => /\ w.keys = w.known
           /\ \A n \in w.known : n \in w.flags <=> n \in w.features

\* C31: the table only grows: every step of the run keeps every row of the
\* table, with the same content and as many times
C31_StoreOnlyGrows ==
    [][\A r \in BagToSet(table) :
          r \in BagToSet(table') /\ table'[r] >= table[r]]_vars

\* C31 witness: the run has ended with the row of an earlier run still in the
\* table beside the one row it inserted itself, after two insert_vehicle calls
\* for the same new listing, the second of which was refused
C31_Witness ==
    /\ pc = "stopped"
    /\ BagCardinality(table) = 2
    /\ SelectExists(table, generate_unique_id("a", source))
    /\ SelectExists(table, generate_unique_id("b", source))
    /\ stats.duplicates_skipped = 0
    /\ stats.total_listings = 2

\* C32: the pages are requested in the order 1, 2, 3, ...: page_number only
\* ever grows by one, and that at the end of the iteration of a processed page,
\* and the request of page k is entered when exactly the pages 1 .. k-1 have
\* been processed, so that no page index is requested twice or skipped
C32_PagesInOrder ==
    [][/\ page_number' \in {page_number, page_number + 1}
       /\ page_number' # page_number => pc = "dispatch" /\ pc' = "loop"
       /\ (pc = "loop" /\ pc' = "request")
            => page_number = stats.pages_processed + 1]_vars

\* C32 witness: page 3 is requested after pages 1 and 2 have been processed
C32_Witness ==
    /\ pc = "request"
    /\ page_number = 3
    /\ stats.pages_processed = 2
    /\ attempt = 0

\* C33: when every page fetch and every item thread returns, run() reaches the
\* end: the page index grows in every iteration that goes on to another page,
\* and a page is requested only while the index is below max_pages
C33_Termination ==
    /\ <>[](pc = "stopped")
    /\ [][(pc = "dispatch" /\ pc' = "loop") => page_number' > page_number]_vars
    /\ [](pc \in {"request", "response", "dispatch"} => page_number < config.max_pages)

\* C33 witness: the run has ended because the page index reached max_pages,
\* with the source still reporting more pages and the last page a new listing
C33_Witness ==
    /\ pc = "stopped"
    /\ page_number = config.max_pages
    /\ num_pages > stats.pages_processed
    /\ stats.pages_processed = config.max_pages - 1
    /\ stats.consective_no_data_page_count = 0

\* C34: every connection taken by check_id_exists or insert_vehicle is put back
\* on every way out: the connections checked out are exactly those of the calls
\* in progress (none when no call is in progress), and a call with a rejected
\* record never holds one
C34_ConnectionAccounting ==
    /\ used = NumAt(workers, "gate_q") + NumAt(workers, "insert")
    /\ \A w \in BagToSet(workers) :
          w.pc = "insert" => ~InsertRejects(convert_vehicle_data(w, w.detail, source))
    /\ workers = EmptyBag => used = 0

\* C34 witness: the run has ended after a check_id_exists call that found a row
\* and an insert_vehicle call that added none (a rejected record or an error of
\* the statement); no call is in progress and no connection is checked out
C34_Witness ==
    /\ pc = "stopped"
    /\ used = 0
    /\ stats.total_listings = 1
    /\ stats.duplicates_skipped = 1
    /\ BagCardinality(table) = 1
    /\ stats.failed_requests = 0

\* the item threads of ws inside check_id_exists
AtGate(ws) == NumAt(ws, "gate") + NumAt(ws, "gate_q")

\* C35: a thread whose check_id_exists has not returned does nothing else, and
\* when the check raises the thread ends there: no fetch is made for the
\* listing, no row is inserted and no counter is changed
C35_GateFailureDrops ==
    /\ [](\A w \in BagToSet(workers) : w.gate = "none" => w.pc \in {"gate", "gate_q"})
    /\ [][(AtGate(workers') < AtGate(workers) /\ Running' < Running)
            => /\ stats' = stats
               /\ table' = table
               /\ Running' = Running - 1
               /\ \A p \in FetchPcs \cup {"detail", "lock", "insert", "dup_load"} :
                     NumAt(workers', p) = NumAt(workers, p)]_vars

\* C35 witness: a page of AutoScout24 has been processed and the run has ended
\* without a duplicate counted, a detail page fetched or a listing counted: its
\* listings were dropped before the fetch
C35_Witness ==
    /\ source = "autoscout24"
    /\ pc = "stopped"
    /\ stats.pages_processed = 1
    /\ stats.total_requests = 1
    /\ stats.duplicates_skipped = 0
    /\ stats.total_listings = 0
    /\ stats.consective_no_data_page_count = 1
    /\ BagCardinality(table) = 1

\* C36: a call of _make_request leaves failed_requests exactly one higher when
\* all its attempts have failed, and nothing else changes the counter: not a
\* failed attempt that is followed by another, not a call that succeeds
C36_FailureAccounting ==
    [][/\ NumAt(workers', "fail_store") < NumAt(workers, "fail_store")
            => stats'.failed_requests = stats.failed_requests + 1
       /\ (pc = "request" /\ pc' = "report")
            => stats'.failed_requests = stats.failed_requests + 1
       /\ stats'.failed_requests # stats.failed_requests
            => \/ NumAt(workers', "fail_store") < NumAt(workers, "fail_store")
               \/ pc = "request" /\ pc' = "report"]_vars

\* C37: consective_no_data_page_count is always between 0 and 3 and is 3 only
\* once the iteration that stops the run has made it so, and
\* list_process_per_page is 0 whenever the main thread is about to enter
\* process_listings for a page
C37_DriverCounters ==
    /\ stats.consective_no_data_page_count \in 0..3
    /\ stats.consective_no_data_page_count = 3 => pc \in {"report", "stopped"}
    /\ pc \in {"loop", "request", "response"} => stats.list_process_per_page = 0

\* C37 witness: the third page is about to be processed after a page that
\* counted a listing (the per-page counter was reset) and a page that counted none
C37_Witness ==
    /\ pc = "response"
    /\ page_number = 3
    /\ stats.total_listings = 1
    /\ stats.consective_no_data_page_count = 1
    /\ stats.list_process_per_page = 0

\* C38: a thread of Mobile.de given a page entry whose type is not 'ad' returns
\* without any effect: no thread state goes on to the duplicate check, the
\* fetch or the insert, no connection is taken, and the table and the counters
\* stay as they are; of the two page entries with the id of a stored listing
\* only the ad is counted as a duplicate
C38_NonAdSkipped ==
    /\ [][(pending # <<>> /\ pending' = Tail(pending) /\ Head(pending).type # "ad")
            => /\ workers' = workers
               /\ stats' = stats
               /\ table' = table
               /\ used' = used
               /\ unique_features' = unique_features]_vars
    /\ [](stats.duplicates_skipped <= 1 /\ Running <= 1)

\* C38 witness: the entry that is not an ad has been taken from the page and the
\* ad behind it not yet; nothing has happened but the page request
C38_Witness ==
    /\ pc = "dispatch"
    /\ Len(pending) = 1
    /\ Head(pending).type = "ad"
    /\ workers = EmptyBag
    /\ used = 0
    /\ stats.total_requests = 1
    /\ stats.duplicates_skipped = 0

====
